---- MODULE Spec2Model ----
(***************************************************************************)
(* Model of the request lifecycle engine of src/lib/apicase.js: the hook   *)
(* chain executor (composeHooks) and the request controller (apicase) that *)
(* wires the before / done / fail chains around one adapter call.          *)
(*                                                                         *)
(* One request is modelled.  Hooks and the adapter are the environment:    *)
(* every capability they are handed (next, done, fail, retry, resolve,     *)
(* reject, setCancelCallback) may be invoked at any later moment, with any *)
(* value, and more than once.  Deferred continuations (the microtask of a  *)
(* chain's final step, the continuation of cancel(), the catch handler of  *)
(* doRequest) are separate steps.                                          *)
(***************************************************************************)
EXTENDS Integers, Sequences, FiniteSets, TLC

\* ---- bounds of the model ------------------------------------------------
MaxHooks == 1     \* each of the three hook lists has 0..MaxHooks hooks
MaxVal == 2       \* payloads, results and errors are drawn from 1..MaxVal
MaxActs == 7      \* hook invocations, adapter calls and deferred finals started
MaxMisuseActs == 5  \* the same, in a run that contains a contract violation
ReqPayload == 1   \* the payload the request is issued with
MaxMisuse == 1    \* contract violations: capability invocations beyond the first of
                  \* their hook or adapter call, and hooks or adapter callbacks that throw
MaxCancels == 1   \* calls of cancel()

\* ---- program constants --------------------------------------------------
EmptyPayload == 0   \* res.payload: {}
NullResult == 0     \* res.result: null (adapter without createState)

Vals == 1..MaxVal
Chains == {"before", "done", "fail"}

VARIABLES
    nHooks,         \* req.hooks[chain].length
    success, pending, cancelled, payload, result,   \* the fields of res
    idx,            \* the cursor of each composeHooks closure
    acts,           \* hook steps, adapter calls and deferred finals, in order of creation
    events,         \* everything emitted on the bus, in order
    rejections,     \* rejected promises still travelling through catch(throwError)
    promise,        \* res.promise
    cancelCallback, \* the closure variable cancelCallback (0: the initial no-op)
    cancelQ,        \* cancel() calls whose .then continuation has not run yet
    cancelLog,      \* history: the callback each cancel() invoked
    regLog,         \* history: the adapter calls that registered a callback, in order
    misuse          \* history: the contract violations of hooks and adapter so far

vars == <<nHooks, success, pending, cancelled, payload,
          result, idx, acts, events, rejections, promise, cancelCallback,
          cancelQ, cancelLog, regLog, misuse>>

\* ---- the mutable part the chains work on, as one record -----------------
Cur ==
    [success |-> success, pending |-> pending, cancelled |-> cancelled,
     payload |-> payload, result |-> result, idx |-> idx, acts |-> acts,
     events |-> events]

pickState(st) ==
    [success |-> st.success, pending |-> st.pending, cancelled |-> st.cancelled,
     payload |-> st.payload, result |-> st.result]

Emit(st, ev) == [st EXCEPT !.events = Append(@, ev)]

\* mutant of beforeUpdate: the event is emitted, res.payload is not written
beforeUpdateEmitOnly(st, next) ==
    Emit(st, [type |-> "change:payload", prev |-> st.payload, next |-> next])

beforeUpdate(st, next) ==
    [Emit(st, [type |-> "change:payload", prev |-> st.payload, next |-> next])
        EXCEPT !.payload = next]

\* mutant of doneUpdate: res.pending is left as it was
doneUpdateStillPending(st, next) ==
    [Emit(st, [type |-> "change:result", prev |-> st.result, next |-> next])
        EXCEPT !.result = next, !.success = TRUE]

doneUpdate(st, next) ==
    [Emit(st, [type |-> "change:result", prev |-> st.result, next |-> next])
        EXCEPT !.result = next, !.pending = FALSE, !.success = TRUE]

\* mutant of failUpdate: res.success is written as in done.update
failUpdateSuccess(st, next) ==
    [Emit(st, [type |-> "change:result", prev |-> st.result, next |-> next])
        EXCEPT !.result = next, !.pending = FALSE, !.success = TRUE]

failUpdate(st, next) ==
    [Emit(st, [type |-> "change:result", prev |-> st.result, next |-> next])
        EXCEPT !.result = next, !.pending = FALSE, !.success = FALSE]

update(st, chain, next) ==
    CASE chain = "before" -> beforeUpdate(st, next)
      [] chain = "done" -> doneUpdate(st, next)
      [] chain = "fail" -> failUpdate(st, next)

\* mutant of setState: diff.success is not applied
setStateKeepsSuccess(st, diff) ==
    LET prev == pickState(st)
        next == [prev EXCEPT !.pending = diff.pending, !.cancelled = diff.cancelled]
        s1 == Emit(st, [type |-> "change:state", prev |-> next, next |-> next,
                        diff |-> diff])
    IN  [s1 EXCEPT !.pending = next.pending, !.cancelled = next.cancelled]

setState(st, diff) ==
    LET prev == pickState(st)
        \* Object.assign(prev, diff) returns prev itself: prev and next are one object
        next == [prev EXCEPT !.success = diff.success, !.pending = diff.pending,
                             !.cancelled = diff.cancelled]
        aliasedPrev == next
        s1 == Emit(st, [type |-> "change:state", prev |-> aliasedPrev,
                        next |-> next, diff |-> diff])
    IN  [s1 EXCEPT !.success = next.success, !.pending = next.pending,
                   !.cancelled = next.cancelled, !.payload = next.payload,
                   !.result = next.result]

\* An entry of acts.  kind "hook": options.hooks[hook](ctx) was called with val;
\* kind "final": the microtask running options.final(val) is queued (ran: it has run);
\* kind "adapter": doRequest(val) called req.adapter.callback.
\* settled: the promise of the step can no longer be resolved (isResolved for a hook);
\* main: the promise settles res.promise; wraps: the catch(throwError) handlers of
\* doRequest calls a rejection of the promise passes through.
NewAct(kind, chain, hook, val, main, wraps) ==
    [kind |-> kind, chain |-> chain, hook |-> hook, val |-> val,
     settled |-> FALSE, ran |-> FALSE, calls |-> <<>>,
     main |-> main, wraps |-> wraps]

\* mutant of withPayload: past the last hook, final is queued without options.update
withPayloadNoUpdate(st, chain, val, main, wraps) ==
    IF st.idx[chain] >= nHooks[chain]
    THEN [st EXCEPT !.acts = Append(@, NewAct("final", chain, 0, val, main, wraps))]
    ELSE [st EXCEPT !.acts =
              Append(@, NewAct("hook", chain, st.idx[chain], val, main, wraps))]

withPayload(st, chain, val, main, wraps) ==
    IF st.idx[chain] >= nHooks[chain]
    THEN LET s1 == update(st, chain, val)
         IN  [s1 EXCEPT !.acts = Append(@, NewAct("final", chain, 0, val, main, wraps))]
    ELSE [st EXCEPT !.acts =
              Append(@, NewAct("hook", chain, st.idx[chain], val, main, wraps))]

\* mutant of tryResolve: no settlement resolves the promise of the step
tryResolveNever(a) == FALSE

\* tryResolve: only the first settlement of a step resolves its promise
tryResolve(a) == ~a.settled

Settle(st, i, call) ==
    [st EXCEPT !.acts[i].settled = TRUE, !.acts[i].calls = Append(@, call)]

\* mutant of ctxNext: the following step is started twice
ctxNextTwice(st, i, val) ==
    LET a == st.acts[i]
        linked == tryResolve(a)
        s1 == [st EXCEPT !.idx[a.chain] = @ + 1]
        s2 == update(s1, a.chain, val)
        s3 == withPayload(s2, a.chain, val, linked /\ a.main,
                          IF linked THEN a.wraps ELSE 0)
        s4 == withPayload(s3, a.chain, val, FALSE, 0)
    IN  Settle(s4, i, <<"next", val>>)

ctxNext(st, i, val) ==
    LET a == st.acts[i]
        linked == tryResolve(a)
        s1 == [st EXCEPT !.idx[a.chain] = @ + 1]
        s2 == update(s1, a.chain, val)
        s3 == withPayload(s2, a.chain, val, linked /\ a.main,
                          IF linked THEN a.wraps ELSE 0)
    IN  Settle(s3, i, <<"next", val>>)

FlowTarget(cap) ==
    CASE cap = "done" -> "done"
      [] cap = "fail" -> "fail"
      [] cap = "retry" -> "before"

createContext(chain) ==
    CASE chain = "before" -> {"done", "fail"}
      [] chain = "done" -> {"fail"}
      [] chain = "fail" -> {"done", "retry"}

\* mutant of changeFlow: the new flow is entered with the value the hook received
changeFlowStale(st, i, cap, val) ==
    LET a == st.acts[i]
        linked == tryResolve(a)
        s1 == withPayload(st, FlowTarget(cap), a.val, linked /\ a.main,
                          IF linked THEN a.wraps ELSE 0)
    IN  Settle(s1, i, <<cap, val>>)

changeFlow(st, i, cap, val) ==
    LET a == st.acts[i]
        linked == tryResolve(a)
        s1 == withPayload(st, FlowTarget(cap), val, linked /\ a.main,
                          IF linked THEN a.wraps ELSE 0)
    IN  Settle(s1, i, <<cap, val>>)

Apply(st) ==
    /\ success' = st.success
    /\ pending' = st.pending
    /\ cancelled' = st.cancelled
    /\ payload' = st.payload
    /\ result' = st.result
    /\ idx' = st.idx
    /\ acts' = st.acts
    /\ events' = st.events

\* the environment's budget: the hook or adapter call i may use a capability
\* that starts a chain; a run with a contract violation is followed less far
MayCall(i) ==
    IF acts[i].calls = <<>> /\ misuse = 0
    THEN Len(acts) < MaxActs
    ELSE /\ acts[i].calls = <<>> \/ misuse < MaxMisuse
         /\ Len(acts) < MaxMisuseActs
MayFault == misuse < MaxMisuse
Room == Len(acts) < (IF misuse = 0 THEN MaxActs ELSE MaxMisuseActs)

\* a capability used by a hook or adapter call that has used one before
Counted(i) == misuse' = IF acts[i].calls = <<>> THEN misuse ELSE misuse + 1

Init ==
    /\ nHooks \in [Chains -> 0..MaxHooks]
    /\ LET st0 == [success |-> FALSE, pending |-> TRUE, cancelled |-> FALSE,
                   payload |-> EmptyPayload, result |-> NullResult,
                   idx |-> [c \in Chains |-> 0], acts |-> <<>>, events |-> <<>>]
           st == withPayload(st0, "before", ReqPayload, TRUE, 0)
       IN  /\ success = st.success
           /\ pending = st.pending
           /\ cancelled = st.cancelled
           /\ payload = st.payload
           /\ result = st.result
           /\ idx = st.idx
           /\ acts = st.acts
           /\ events = st.events
    /\ rejections = <<>>
    /\ promise = [status |-> "pending"]
    /\ cancelCallback = 0
    /\ cancelQ = 0
    /\ cancelLog = <<>>
    /\ regLog = <<>>
    /\ misuse = 0

Env == <<nHooks>>
CancelVars == <<cancelCallback, cancelQ, cancelLog, regLog>>

\* a hook calls ctx.next(val)
HookNext(i, val) ==
    /\ acts[i].kind = "hook"
    /\ MayCall(i)
    /\ Counted(i)
    /\ Apply(ctxNext(Cur, i, val))
    /\ UNCHANGED <<Env, rejections, promise, CancelVars>>

\* mutant of HookRedirect: the chain that is entered starts again at its first hook
HookRedirectRestart(i, cap, val) ==
    /\ acts[i].kind = "hook"
    /\ cap \in createContext(acts[i].chain)
    /\ MayCall(i)
    /\ Counted(i)
    /\ Apply(changeFlow([Cur EXCEPT !.idx[FlowTarget(cap)] = 0], i, cap, val))
    /\ UNCHANGED <<Env, rejections, promise, CancelVars>>

\* a hook calls one of the redirects of its context: ctx.done, ctx.fail, ctx.retry
HookRedirect(i, cap, val) ==
    /\ acts[i].kind = "hook"
    /\ cap \in createContext(acts[i].chain)
    /\ MayCall(i)
    /\ Counted(i)
    /\ Apply(changeFlow(Cur, i, cap, val))
    /\ UNCHANGED <<Env, rejections, promise, CancelVars>>

\* a promise rejects with err: every enclosing doRequest emits `error` in its
\* catch handler and rethrows; past the outermost one res.promise rejects
Reject(a, err) ==
    IF a.wraps > 0
    THEN /\ rejections' = Append(rejections, [err |-> err, wraps |-> a.wraps, main |-> a.main])
         /\ UNCHANGED promise
    ELSE /\ promise' = IF a.main THEN [status |-> "rejected", value |-> err] ELSE promise
         /\ UNCHANGED rejections

\* a hook throws while it is being called, before it used any capability
HookThrow(i, err) ==
    /\ acts[i].kind = "hook"
    /\ acts[i].calls = <<>>
    /\ MayFault
    /\ misuse' = misuse + 1
    /\ Reject(acts[i], err)
    /\ acts' = [acts EXCEPT ![i].settled = TRUE, ![i].calls = <<<<"throw", err>>>>]
    /\ UNCHANGED <<Env, success, pending, cancelled, payload, result, idx, events, CancelVars>>

\* the deferred options.final of the done- or fail-chain
ChainFinal(i) ==
    /\ acts[i].kind = "final"
    /\ acts[i].chain \in {"done", "fail"}
    /\ ~acts[i].ran
    /\ LET snap == pickState(Cur)
       IN  /\ events' = events \o
                 <<[type |-> acts[i].chain, result |-> acts[i].val, snap |-> snap],
                   [type |-> "finish", result |-> acts[i].val, snap |-> snap]>>
           /\ promise' = IF acts[i].main
                         THEN [status |-> "resolved", value |-> snap]
                         ELSE promise
    /\ acts' = [acts EXCEPT ![i].ran = TRUE, ![i].settled = TRUE]
    /\ UNCHANGED <<Env, misuse, success, pending, cancelled, payload, result, idx, rejections, CancelVars>>

\* the deferred options.final of the before-chain: doRequest calls the adapter
doRequest(i) ==
    /\ acts[i].kind = "final"
    /\ acts[i].chain = "before"
    /\ ~acts[i].ran
    /\ Room
    /\ acts' = Append([acts EXCEPT ![i].ran = TRUE, ![i].settled = TRUE],
                      NewAct("adapter", "before", 0, acts[i].val, acts[i].main,
                             acts[i].wraps + 1))
    /\ UNCHANGED <<Env, misuse, success, pending, cancelled, payload, result, idx, events,
                   rejections, promise, CancelVars>>

\* the adapter calls ctx.resolve(val)
resolveAdapter(i, val) ==
    /\ acts[i].kind = "adapter"
    /\ MayCall(i)
    /\ Counted(i)
    /\ LET a == acts[i]
           s1 == withPayload(Cur, "done", val, ~a.settled /\ a.main,
                             IF ~a.settled THEN a.wraps ELSE 0)
       IN  Apply(Settle(s1, i, <<"resolve", val>>))
    /\ UNCHANGED <<Env, rejections, promise, CancelVars>>

\* the adapter calls ctx.reject(val)
rejectAdapter(i, val) ==
    /\ acts[i].kind = "adapter"
    /\ MayCall(i)
    /\ Counted(i)
    /\ LET a == acts[i]
           s1 == withPayload(Cur, "fail", val, ~a.settled /\ a.main,
                             IF ~a.settled THEN a.wraps ELSE 0)
       IN  Apply(Settle(s1, i, <<"reject", val>>))
    /\ UNCHANGED <<Env, rejections, promise, CancelVars>>

\* the adapter callback throws, or the thenable it returned rejects
AdapterFault(i, err) ==
    /\ acts[i].kind = "adapter"
    /\ MayFault
    /\ misuse' = misuse + 1
    /\ IF acts[i].settled
       THEN UNCHANGED <<rejections, promise>>
       ELSE Reject(acts[i], err)
    /\ acts' = [acts EXCEPT ![i].settled = TRUE, ![i].calls = Append(@, <<"fault", err>>)]
    /\ UNCHANGED <<Env, success, pending, cancelled, payload, result, idx, events, CancelVars>>

\* mutant of throwError: the error is rethrown without being emitted
throwErrorSilent ==
    /\ rejections # <<>>
    /\ LET r == Head(rejections)
       IN  IF r.wraps > 1
           THEN /\ rejections' = Tail(rejections) \o <<[r EXCEPT !.wraps = @ - 1]>>
                /\ UNCHANGED promise
           ELSE /\ rejections' = Tail(rejections)
                /\ promise' = IF r.main
                              THEN [status |-> "rejected", value |-> r.err]
                              ELSE promise
    /\ UNCHANGED <<Env, misuse, success, pending, cancelled, payload, result, idx, acts,
                   events, CancelVars>>

\* throwError, as the catch handler of one doRequest
throwError ==
    /\ rejections # <<>>
    /\ LET r == Head(rejections)
       IN  /\ events' = Append(events, [type |-> "error", err |-> r.err])
           /\ IF r.wraps > 1
              THEN /\ rejections' = Tail(rejections) \o <<[r EXCEPT !.wraps = @ - 1]>>
                   /\ UNCHANGED promise
              ELSE /\ rejections' = Tail(rejections)
                   /\ promise' = IF r.main
                                 THEN [status |-> "rejected", value |-> r.err]
                                 ELSE promise
    /\ UNCHANGED <<Env, misuse, success, pending, cancelled, payload, result, idx, acts, CancelVars>>

\* the adapter calls ctx.setCancelCallback
setCancelCallback(i) ==
    /\ acts[i].kind = "adapter"
    /\ acts[i].calls = <<>>
    /\ \A k \in 1..Len(regLog) : regLog[k] # i
    /\ cancelCallback' = i
    /\ regLog' = Append(regLog, i)
    /\ UNCHANGED <<Env, misuse, success, pending, cancelled, payload, result, idx, acts, events,
                   rejections, promise, cancelQ, cancelLog>>

\* res.cancel(): the synchronous part, cancelCallback()
cancel ==
    /\ Len(cancelLog) < MaxCancels
    /\ cancelLog' = Append(cancelLog, cancelCallback)
    /\ cancelQ' = cancelQ + 1
    /\ UNCHANGED <<Env, misuse, success, pending, cancelled, payload, result, idx, acts, events,
                   rejections, promise, cancelCallback, regLog>>

\* res.cancel(): the .then continuation
cancelThen ==
    /\ cancelQ > 0
    /\ cancelQ' = cancelQ - 1
    /\ LET s1 == setState(Cur, [success |-> FALSE, pending |-> FALSE, cancelled |-> TRUE])
       IN  Apply(Emit(s1, [type |-> "cancel", snap |-> pickState(s1)]))
    /\ UNCHANGED <<Env, misuse, rejections, promise, cancelCallback, cancelLog, regLog>>

Next ==
    \/ \E i \in 1..Len(acts), val \in Vals : HookNext(i, val)
    \/ \E i \in 1..Len(acts), cap \in {"done", "fail", "retry"}, val \in Vals :
           HookRedirect(i, cap, val)
    \/ \E i \in 1..Len(acts), err \in Vals : HookThrow(i, err)
    \/ \E i \in 1..Len(acts) : ChainFinal(i)
    \/ \E i \in 1..Len(acts) : doRequest(i)
    \/ \E i \in 1..Len(acts), val \in Vals : resolveAdapter(i, val)
    \/ \E i \in 1..Len(acts), val \in Vals : rejectAdapter(i, val)
    \/ \E i \in 1..Len(acts), err \in Vals : AdapterFault(i, err)
    \/ throwError
    \/ \E i \in 1..Len(acts) : setCancelCallback(i)
    \/ cancel
    \/ cancelThen

Spec == Init /\ [][Next]_vars

\* ---- vocabulary of the properties ----------------------------------------
ActIds == 1..Len(acts)
Hooks(chain) == {i \in ActIds : acts[i].kind = "hook" /\ acts[i].chain = chain}
Adapters == {i \in ActIds : acts[i].kind = "adapter"}
EventIds(types) == {k \in 1..Len(events) : events[k].type \in types}

\* the hook or adapter call i used capability cap as its first capability
First(i, cap) == acts[i].calls # <<>> /\ acts[i].calls[1][1] = cap

\* every hook that has acted continued with the value it received
PassOn(is) == \A i \in is : acts[i].calls # <<>> => acts[i].calls[1] = <<"next", acts[i].val>>

NeverCancelled == cancelLog = <<>>

Snapshot(s, p, c, pl, r) ==
    [success |-> s, pending |-> p, cancelled |-> c, payload |-> pl, result |-> r]

\* C1: without cancel, with hooks that each continue once with the value they
\* received and an adapter that settles once, the completion promise resolves with
\* {success: the adapter resolved, pending: false, cancelled: false, payload: the
\* issued payload, result: the adapter's value} and never rejects.
C1_CompletionSnapshot ==
    (NeverCancelled /\ misuse = 0 /\ PassOn(Hooks("before") \cup Hooks("done") \cup Hooks("fail")))
    => /\ promise.status # "rejected"
       /\ promise.status = "resolved" =>
             \E i \in Adapters :
                /\ Adapters = {i}
                /\ Len(acts[i].calls) = 1
                /\ acts[i].calls[1][1] \in {"resolve", "reject"}
                /\ promise.value = Snapshot(acts[i].calls[1][1] = "resolve", FALSE, FALSE,
                                            ReqPayload, acts[i].calls[1][2])

C1_Witness ==
    /\ NeverCancelled /\ misuse = 0
    /\ PassOn(Hooks("before") \cup Hooks("done") \cup Hooks("fail"))
    /\ nHooks["before"] = MaxHooks /\ nHooks["done"] = MaxHooks
    /\ promise.status = "resolved"
    /\ promise.value.success
    /\ promise.value.result # ReqPayload

\* C2: cancel() first invokes the callback most recently passed to
\* setCancelCallback (the initial no-op if none), and only then, in one step, forces
\* success=false, pending=false, cancelled=true and emits `cancel` with that
\* snapshot, wherever the chains are.
C2_CallbackFirst ==
    Len(cancelLog') > Len(cancelLog) =>
        /\ cancelLog'[Len(cancelLog')] = IF regLog = <<>> THEN 0 ELSE regLog[Len(regLog)]
        /\ events' = events
        /\ <<success, pending, cancelled>>' = <<success, pending, cancelled>>

C2_ForceThenEmit ==
    (Len(events') > Len(events) /\ events'[Len(events')].type = "cancel") =>
        LET n == Len(events') IN
        /\ Cardinality(EventIds({"cancel"})) < Len(cancelLog)
        /\ n = Len(events) + 2
        /\ events'[n - 1].type = "change:state"
        /\ events'[n - 1].next = Snapshot(FALSE, FALSE, TRUE, payload, result)
        /\ <<success', pending', cancelled'>> = <<FALSE, FALSE, TRUE>>
        /\ events'[n].snap = Snapshot(FALSE, FALSE, TRUE, payload, result)

C3_CancelledIsFinal ==
    [][(cancelled /\ ~success /\ ~pending)
          => (cancelled' /\ ~success' /\ ~pending')]_vars

\* C4 (as claimed): success and cancelled are never both true.
C4_SuccessExcludesCancelled == ~(success /\ cancelled)

\* C5: while pending is true, success and cancelled are both false.
C5_PendingMeansUndecided == pending => (~success /\ ~cancelled)

\* still pending while the adapter is in flight, after a before-hook continued
C5_Witness ==
    /\ pending
    /\ \E i \in Hooks("before") : First(i, "next")
    /\ \E i \in Adapters : acts[i].calls = <<>>

\* the hook or adapter call i that uses a capability in this step, having used one before
Repeats(i) == acts[i].calls # <<>> /\ Len(acts'[i].calls) > Len(acts[i].calls)

ChainsUntouched ==
    /\ idx' = idx
    /\ <<success, pending, cancelled, payload, result>>'
           = <<success, pending, cancelled, payload, result>>
    /\ events' = events
    /\ Len(acts') = Len(acts)

\* C6 (as claimed): a second invocation of next or of a redirect within one hook step
\* advances no cursor, changes no field of the state, emits no event and starts no
\* further hook, chain or adapter call.
C6_SecondCapabilityNoEffect ==
    [][(\E i \in Hooks("before") \cup Hooks("done") \cup Hooks("fail") : Repeats(i))
          => ChainsUntouched]_vars

\* C7 (as claimed): after the adapter called resolve or reject, a further call of
\* resolve or reject starts no chain, changes no state field and emits no event, and
\* the completion snapshot shows the outcome of the first call.
C7_FirstSettlementWins ==
    /\ [][(\E i \in Adapters :
               /\ Repeats(i)
               /\ acts[i].calls[1][1] \in {"resolve", "reject"}
               /\ acts'[i].calls[Len(acts'[i].calls)][1] \in {"resolve", "reject"})
             => ChainsUntouched]_vars
    /\ [](\A i \in Adapters :
             (/\ Adapters = {i}
              /\ acts[i].calls # <<>>
              /\ acts[i].calls[1][1] \in {"resolve", "reject"}
              /\ NeverCancelled
              /\ \A h \in Hooks("before") \cup Hooks("done") \cup Hooks("fail") :
                     Len(acts[h].calls) <= 1
              /\ PassOn(Hooks("before") \cup Hooks("done") \cup Hooks("fail"))
              /\ promise.status = "resolved")
             => promise.value = Snapshot(acts[i].calls[1][1] = "resolve", FALSE, FALSE,
                                         ReqPayload, acts[i].calls[1][2]))

\* the before-hooks that have acted continued with next
BeforeHooksContinue == \A i \in Hooks("before") : acts[i].calls # <<>> => First(i, "next")

RetryIds == {i \in Hooks("fail") : First(i, "retry")}

PayloadChangesPrecedeTerminal ==
    \A k \in EventIds({"change:payload"}) : \A t \in EventIds({"done", "fail"}) : k < t

\* C8 (as claimed): with N before-hooks that each continue, exactly N change:payload
\* events are emitted, all before the terminal done / fail event.
C8_ExactlyNPayloadChanges ==
    (misuse = 0 /\ BeforeHooksContinue /\ EventIds({"done", "fail"}) # {})
    => /\ Cardinality(EventIds({"change:payload"})) = nHooks["before"]
       /\ PayloadChangesPrecedeTerminal

\* C8 (amended): with N before-hooks that each continue once, and hooks and adapter
\* that keep their contract, exactly N + 1 + R change:payload events are emitted,
\* R being the number of retry redirects taken: one per continuing before-hook and
\* one by the before-chain's terminal step ahead of each adapter call; all of them
\* before the terminal done / fail event.
C8_PayloadChangesCounted ==
    (misuse = 0 /\ BeforeHooksContinue /\ EventIds({"done", "fail"}) # {})
    => /\ Cardinality(EventIds({"change:payload"}))
             = nHooks["before"] + 1 + Cardinality(RetryIds)
       /\ PayloadChangesPrecedeTerminal

\* a terminal event after one before-hook continued and one retry was taken
C8_Witness ==
    /\ misuse = 0 /\ BeforeHooksContinue
    /\ EventIds({"done", "fail"}) # {}
    /\ nHooks["before"] = MaxHooks
    /\ RetryIds # {}

LastRetry == CHOOSE i \in RetryIds : \A j \in RetryIds : j <= i

\* C9: after a fail-hook's retry(p) the before-chain is re-entered with p; if the
\* before-hooks that run from then on pass on what they receive and the request is
\* not cancelled, every later adapter call gets p, and the terminal events and the
\* completion snapshot carry payload p.
C9_RetryRoundTrip ==
    (misuse = 0 /\ NeverCancelled /\ RetryIds # {})
    => LET r == LastRetry
           p == acts[r].calls[1][2]
       IN  /\ acts[r + 1].chain = "before" /\ acts[r + 1].val = p
           /\ PassOn({j \in Hooks("before") : j > r}) =>
                 /\ \A j \in Adapters : j > r => acts[j].val = p
                 /\ \A k \in EventIds({"done", "fail", "finish"}) :
                        events[k].snap.payload = p
                 /\ EventIds({"finish"}) # {} => \E j \in Adapters : j > r
                 /\ promise.status # "rejected"
                 /\ promise.status = "resolved" => promise.value.payload = p

\* a retry with a new payload, a before-hook that ran again, and the terminal step
C9_Witness ==
    /\ misuse = 0 /\ NeverCancelled /\ RetryIds # {}
    /\ acts[LastRetry].calls[1][2] # ReqPayload
    /\ \E j \in Hooks("before") : j > LastRetry
    /\ PassOn({j \in Hooks("before") : j > LastRetry})
    /\ promise.status = "resolved"

\* the adapter calls that faulted before using resolve or reject
Faulted == {i \in Adapters : First(i, "fault")}

\* an adapter fault is the only contract violation of the run
OnlyFault == misuse = 1 /\ Faulted # {}

C10_ErrorAndRejection ==
    OnlyFault =>
        LET e == acts[CHOOSE i \in Faulted : TRUE].calls[1][2] IN
        /\ EventIds({"done", "fail", "finish"}) = {}
        /\ promise.status # "resolved"
        /\ \A k \in EventIds({"error"}) : events[k].err = e
        /\ \/ rejections # <<>>
           \/ /\ EventIds({"error"}) # {}
              /\ promise = [status |-> "rejected", value |-> e]
        /\ (RetryIds = {} /\ NeverCancelled) => (pending /\ ~success)

C10_StateKept ==
    (rejections' # rejections \/ (promise' # promise /\ promise'.status = "rejected"))
        => <<success, pending, cancelled, result>>' = <<success, pending, cancelled, result>>

\* C10: when the adapter callback throws, or its thenable rejects, before resolve or
\* reject was called, an `error` event with that error is emitted and the completion
\* promise rejects with it; the fault changes no state field, and no done, fail or
\* finish event is emitted.
C10_AdapterFault == []C10_ErrorAndRejection /\ [][C10_StateKept]_vars

C10_Witness ==
    /\ OnlyFault
    /\ pending
    /\ EventIds({"error"}) # {}
    /\ promise.status = "rejected"

\* C11 (as claimed): whenever the completion promise is rejected, an adapter call
\* faulted before it used resolve or reject and an `error` event was emitted; a
\* throwing hook, a business reject or cancel() never reject the promise.
C11_OnlyAdapterFaultRejects ==
    promise.status = "rejected" => (Faulted # {} /\ EventIds({"error"}) # {})

\* ---- the request with hooks and an adapter that keep their contract ------
\* Each hook uses exactly one capability once, each adapter call settles once,
\* nobody throws and cancel() is not called; the hook lists are longer.
MaxChainHooks == 2   \* each of the three hook lists has 0..MaxChainHooks hooks

InitContract ==
    /\ nHooks \in [Chains -> 0..MaxChainHooks]
    /\ LET st0 == [success |-> FALSE, pending |-> TRUE, cancelled |-> FALSE,
                   payload |-> EmptyPayload, result |-> NullResult,
                   idx |-> [c \in Chains |-> 0], acts |-> <<>>, events |-> <<>>]
           st == withPayload(st0, "before", ReqPayload, TRUE, 0)
       IN  /\ success = st.success
           /\ pending = st.pending
           /\ cancelled = st.cancelled
           /\ payload = st.payload
           /\ result = st.result
           /\ idx = st.idx
           /\ acts = st.acts
           /\ events = st.events
    /\ rejections = <<>>
    /\ promise = [status |-> "pending"]
    /\ cancelCallback = 0
    /\ cancelQ = 0
    /\ cancelLog = <<>>
    /\ regLog = <<>>
    /\ misuse = 0

ContractNext ==
    \/ \E i \in 1..Len(acts), val \in Vals : acts[i].calls = <<>> /\ HookNext(i, val)
    \/ \E i \in 1..Len(acts), cap \in {"done", "fail", "retry"}, val \in Vals :
           acts[i].calls = <<>> /\ HookRedirect(i, cap, val)
    \/ \E i \in 1..Len(acts) : ChainFinal(i)
    \/ \E i \in 1..Len(acts) : doRequest(i)
    \/ \E i \in 1..Len(acts), val \in Vals : acts[i].calls = <<>> /\ resolveAdapter(i, val)
    \/ \E i \in 1..Len(acts), val \in Vals : acts[i].calls = <<>> /\ rejectAdapter(i, val)

SpecContract == InitContract /\ [][ContractNext]_vars

\* the done- or fail-chain has entered its terminal step (no hook left at its cursor)
TerminalStepEntered ==
    \E i \in ActIds : acts[i].kind = "final" /\ acts[i].chain \in {"done", "fail"}

\* C12 (as claimed): without cancel(), pending stays true and success false until the
\* terminal step of the done- or fail-chain runs: no intermediate hook's next and
\* no retried adapter call in flight sees SUCCESS or FAILED.
C12_PendingUntilTerminalStep ==
    (NeverCancelled /\ ~TerminalStepEntered) => (pending /\ ~success)

\* C13: with hooks that each use one capability once, an adapter that settles once
\* per call and no cancel(), at most one terminal event (done or fail, never both)
\* is emitted; finish follows it immediately and nothing follows finish; every
\* change:result precedes it; its snapshot has pending=false and success=true
\* exactly for done; and the completion promise is resolved, with that same
\* snapshot, exactly when the terminal event has been emitted.
C13_OneTerminalEvent ==
    (misuse = 0 /\ NeverCancelled) =>
        LET T == EventIds({"done", "fail"}) IN
        /\ Cardinality(T) <= 1
        /\ Cardinality(EventIds({"finish"})) = Cardinality(T)
        /\ promise.status # "rejected"
        /\ promise.status = "resolved" <=> T # {}
        /\ \A k \in T :
              /\ Len(events) = k + 1
              /\ events[k + 1].type = "finish"
              /\ EventIds({"change:result"}) # {}
              /\ \A r \in EventIds({"change:result"}) : r < k
              /\ events[k].snap = events[k + 1].snap
              /\ events[k].result = events[k + 1].result
              /\ events[k].snap.result = events[k].result
              /\ events[k].snap.success = (events[k].type = "done")
              /\ ~events[k].snap.pending
              /\ promise.value = events[k].snap

\* a request that failed for good after its fail-hook continued
C13_Witness ==
    /\ misuse = 0 /\ NeverCancelled
    /\ nHooks["fail"] = MaxHooks
    /\ \E i \in Hooks("fail") : First(i, "next")
    /\ EventIds({"fail"}) # {}
    /\ promise.status = "resolved"

\* the events emitted by the current step
NewEvents(types) ==
    {k \in (Len(events) + 1)..Len(events') : events'[k].type \in types}

\* C14 (as claimed): a step that changes payload emits change:payload, one that
\* changes result emits change:result, and one that changes success, pending or
\* cancelled emits change:state, each carrying the old value as prev.
C14_MutationsAnnounced ==
    [][/\ payload' # payload =>
             \E k \in NewEvents({"change:payload"}) : events'[k].prev = payload
       /\ result' # result =>
             \E k \in NewEvents({"change:result"}) : events'[k].prev = result
       /\ <<success, pending, cancelled>>' # <<success, pending, cancelled>> =>
             NewEvents({"change:state"}) # {}]_vars

\* C15 (as claimed): a change:state event carries as prev the snapshot of the state
\* just before the mutation and as next the snapshot just after it.
C15_StateChangePrevNext ==
    [][\A k \in NewEvents({"change:state"}) :
          /\ events'[k].prev = Snapshot(success, pending, cancelled, payload, result)
          /\ events'[k].next = Snapshot(success', pending', cancelled', payload', result')]_vars

\* C16: while every hook uses one capability once and every adapter call settles
\* once, at most one step of the request is in flight: an invoked hook or adapter
\* awaiting settlement, or a terminal step queued but not yet run; this holds
\* across retry, promote and demote redirects.
InFlight == {i \in ActIds : acts[i].kind \in {"hook", "adapter"} /\ acts[i].calls = <<>>}
Queued == {i \in ActIds : acts[i].kind = "final" /\ ~acts[i].ran}
C16_OneStepInFlight ==
    misuse = 0 => Cardinality(InFlight \cup Queued) <= 1

\* C16 witness: after a demote and a retry the second adapter call is in flight
C16_Witness ==
    /\ misuse = 0
    /\ \E i \in Hooks("done") : First(i, "fail")
    /\ RetryIds # {}
    /\ \E i \in Adapters : i \in InFlight /\ i > LastRetry

\* C18 (as claimed): an adapter fault emits `error` exactly once per request, however
\* many retries preceded the faulting adapter call.
C18_OneErrorPerFault ==
    (OnlyFault /\ rejections = <<>>) => Cardinality(EventIds({"error"})) = 1

\* C20 (as claimed): cancel() never settles the completion promise and never emits
\* done, fail or finish, so a cancelled request whose adapter stays silent keeps its
\* promise pending; the promise is settled only by the terminal step of the done- or
\* fail-chain or by an adapter fault.
TerminalStepRuns ==
    \E i \in ActIds : /\ acts[i].kind = "final" /\ acts[i].chain \in {"done", "fail"}
                      /\ ~acts[i].ran /\ acts'[i].ran
C20_SettledOnlyByTerminalOrFault ==
    [][/\ (cancelLog' # cancelLog \/ cancelQ' # cancelQ) =>
              (promise' = promise /\ NewEvents({"done", "fail", "finish"}) = {})
       /\ promise' # promise =>
              \/ TerminalStepRuns /\ promise'.status = "resolved"
              \/ Faulted # {} /\ promise'.status = "rejected"]_vars

\* C19: each chain has one cursor per request, which only increases: a hook that
\* continued with next is not invoked again; a retry made when every before-hook has
\* continued runs no before-hook and calls the adapter directly with the retried
\* payload; and the next entry of the fail-chain after a retry is the hook that
\* invoked retry, not the first fail-hook.
ContinuedBefore(chain, j) == {i \in Hooks(chain) : i < j /\ First(i, "next")}
CursorAdvances == \A c \in Chains : idx'[c] >= idx[c]
\* the hook an invocation runs is the number of continues of its chain so far
NoRerun ==
    /\ \A j \in ActIds : acts[j].kind = "hook" =>
           acts[j].hook = Cardinality(ContinuedBefore(acts[j].chain, j))
    /\ \A i, j \in ActIds :
           (/\ i < j /\ acts[i].kind = "hook" /\ acts[j].kind = "hook"
            /\ acts[i].chain = acts[j].chain /\ acts[i].hook = acts[j].hook)
           => ~First(i, "next")
RetryDirect ==
    \A r \in RetryIds :
       Cardinality(ContinuedBefore("before", r)) = nHooks["before"] =>
          /\ \A j \in Hooks("before") : j < r
          /\ r + 1 <= Len(acts) =>
                 /\ acts[r + 1].kind = "final" /\ acts[r + 1].chain = "before"
                 /\ acts[r + 1].val = acts[r].calls[1][2]
          /\ r + 2 <= Len(acts) =>
                 acts[r + 2].kind = "adapter" /\ acts[r + 2].val = acts[r].calls[1][2]
ResumeAtRetrier ==
    \A r \in RetryIds, j \in ActIds :
       (/\ j > r /\ acts[j].chain = "fail"
        /\ \A k \in (r + 1)..(j - 1) : acts[k].chain # "fail")
       => acts[j].kind = "hook" /\ acts[j].hook = acts[r].hook
C19_CursorNeverReset ==
    [][/\ CursorAdvances
       /\ misuse' = 0 => (NoRerun' /\ RetryDirect' /\ ResumeAtRetrier')]_vars

\* C19 witness: of two fail-hooks the first continued, the second retried, and after
\* the second failure the second fail-hook is invoked again
C19_Witness ==
    /\ misuse = 0
    /\ nHooks["fail"] = MaxChainHooks
    /\ \E r \in RetryIds, j \in Hooks("fail") :
          /\ acts[r].hook = MaxChainHooks - 1
          /\ j > r /\ acts[j].hook = acts[r].hook
          /\ \E a \in Adapters : r < a /\ a < j /\ acts[a].val = acts[r].calls[1][2]

\* ---- the request under the contract, without the history of finished steps ----
\* Hooks use one capability once, the adapter settles once, nothing throws.  Steps
\* that have finished are dropped from acts, so that a request whose hooks keep
\* redirecting is a cycle of states; acts[1] is the one step in flight (C16).
MaxRetries == 2   \* doRequest calls a fail-hook may add by retry

Unfinished(a) == IF a.kind = "final" THEN ~a.ran ELSE a.calls = <<>>
Forget(st) == [st EXCEPT !.acts = SelectSeq(@, Unfinished)]

LiveHookNext(val) ==
    /\ acts # <<>>
    /\ acts[1].kind = "hook"
    /\ Apply(Forget(ctxNext(Cur, 1, val)))
    /\ UNCHANGED <<Env, misuse, rejections, promise, CancelVars>>

LiveHookRedirect(cap, val) ==
    /\ acts # <<>>
    /\ acts[1].kind = "hook"
    /\ cap \in createContext(acts[1].chain)
    /\ cap = "retry" => acts[1].wraps <= MaxRetries
    /\ Apply(Forget(changeFlow(Cur, 1, cap, val)))
    /\ UNCHANGED <<Env, misuse, rejections, promise, CancelVars>>

LiveChainFinal ==
    /\ acts # <<>>
    /\ acts[1].kind = "final"
    /\ acts[1].chain \in {"done", "fail"}
    /\ LET snap == pickState(Cur)
       IN  /\ events' = events \o
                 <<[type |-> acts[1].chain, result |-> acts[1].val, snap |-> snap],
                   [type |-> "finish", result |-> acts[1].val, snap |-> snap]>>
           /\ promise' = IF acts[1].main
                         THEN [status |-> "resolved", value |-> snap]
                         ELSE promise
    /\ acts' = <<>>
    /\ UNCHANGED <<Env, misuse, success, pending, cancelled, payload, result, idx, rejections, CancelVars>>

LiveDoRequest ==
    /\ acts # <<>>
    /\ acts[1].kind = "final"
    /\ acts[1].chain = "before"
    /\ acts' = <<NewAct("adapter", "before", 0, acts[1].val, acts[1].main,
                         acts[1].wraps + 1)>>
    /\ UNCHANGED <<Env, misuse, success, pending, cancelled, payload, result, idx, events,
                   rejections, promise, CancelVars>>

LiveResolveAdapter(val) ==
    /\ acts # <<>>
    /\ acts[1].kind = "adapter"
    /\ LET a == acts[1]
           s1 == withPayload(Cur, "done", val, ~a.settled /\ a.main,
                             IF ~a.settled THEN a.wraps ELSE 0)
       IN  Apply(Forget(Settle(s1, 1, <<"resolve", val>>)))
    /\ UNCHANGED <<Env, misuse, rejections, promise, CancelVars>>

LiveRejectAdapter(val) ==
    /\ acts # <<>>
    /\ acts[1].kind = "adapter"
    /\ LET a == acts[1]
           s1 == withPayload(Cur, "fail", val, ~a.settled /\ a.main,
                             IF ~a.settled THEN a.wraps ELSE 0)
       IN  Apply(Forget(Settle(s1, 1, <<"reject", val>>)))
    /\ UNCHANGED <<Env, misuse, rejections, promise, CancelVars>>

\* every invoked hook eventually uses a capability, every adapter call eventually
\* settles, every queued microtask eventually runs
HookActs ==
    \/ \E val \in Vals : LiveHookNext(val)
    \/ \E cap \in {"done", "fail", "retry"}, val \in Vals : LiveHookRedirect(cap, val)
AdapterSettles == \E val \in Vals : LiveResolveAdapter(val) \/ LiveRejectAdapter(val)
Microtasks == LiveChainFinal \/ LiveDoRequest \/ cancelThen

LiveNext ==
    \/ \E val \in Vals : LiveHookNext(val)
    \/ \E cap \in {"done", "fail", "retry"}, val \in Vals : LiveHookRedirect(cap, val)
    \/ LiveChainFinal
    \/ LiveDoRequest
    \/ \E val \in Vals : LiveResolveAdapter(val)
    \/ \E val \in Vals : LiveRejectAdapter(val)
    \/ cancel
    \/ cancelThen

LiveSpec ==
    /\ Init
    /\ [][LiveNext]_vars
    /\ WF_vars(HookActs)
    /\ WF_vars(AdapterSettles)
    /\ WF_vars(Microtasks)

\* a hook leaves its chain: retry (to before), redirect-to-done, redirect-to-fail
RedirectStep ==
    /\ acts # <<>> /\ acts[1].kind = "hook"
    /\ acts' # <<>> /\ acts'[1].chain # acts[1].chain
RetryStep == RedirectStep /\ acts[1].chain = "fail" /\ acts'[1].chain = "before"
Finished ==
    /\ EventIds({"done", "fail"}) # {}
    /\ EventIds({"finish"}) # {}
    /\ promise.status = "resolved"
    /\ ~promise.value.pending

\* C17 (as claimed): if hooks and adapter keep acting and retry is invoked only
\* finitely many times, the request eventually runs a terminal step, emits finish
\* and resolves the completion promise with a snapshot having pending = false.
C17_FiniteRetriesTerminate ==
    (<>[][~RetryStep]_vars) => <>Finished

\* C17 (amended): the same, when retry, redirect-to-done and redirect-to-fail together
\* are invoked only finitely many times.
C17_FiniteRedirectsTerminate ==
    (<>[][~RedirectStep]_vars) => <>Finished

\* C17 witness: a request that finished after a retry reached the adapter again
C17_Witness ==
    /\ Finished
    /\ nHooks["fail"] > 0
    /\ Cardinality(EventIds({"change:payload"})) >= 2

====
